---- MODULE Spec2Model ----
(***************************************************************************)
(* API-key gate in front of the JSON-RPC endpoints                         *)
(* (src/src/rpc/middleware/apiKeyAuth.ts).                                 *)
(*                                                                         *)
(* JavaScript values are encoded as follows.                               *)
(*   - an optional value (string | undefined, error?) is a sequence of     *)
(*     length 0 (undefined) or 1 (the value);                              *)
(*   - a JSON value of a request body is a record with a "tag":            *)
(*       "null"    null or undefined (no body)                             *)
(*       "prim"    a number, string or boolean, with its truthiness        *)
(*       "object"  an object, with its optional method and its id          *)
(*       "array"   an array, with its items (JSON values again)            *)
(*   - a URL or path is the sequence of its characters.                    *)
(***************************************************************************)
EXTENDS Integers, Sequences, FiniteSets, TLC

VARIABLES
    config,         \* the ApiKeyAuthConfig the middleware was created with
    httpPc,         \* where the HTTP request in flight is in its lifecycle
    httpReq,        \* the HTTP request in flight: <<>> or <<request>>
    httpGated,      \* whether the middleware went past its route check
    httpValidation, \* what validateApiKey returned to the middleware, if called
    httpReply,      \* what the middleware sent with reply: <<>> or <<reply>>
    httpDispatched, \* the bodies handed to the route handler (the dispatcher)
    denials,        \* the denials rendered so far, by class of provided key
    wsPc,           \* the WebSocket connection: "closed" or "open"
    wsHandshake,    \* what its handshake carried: <<>> or <<[header, query]>>
    wsKey,          \* the credential captured for the connection
    wsCount,        \* the inbound messages handled on the connection
    wsDenied,       \* how many of them were denied
    wsLast,         \* the last inbound message and what became of it
    wsSent,         \* the messages sent to the client for the last message
    wsForwarded,    \* the bodies forwarded to the dispatcher for the last message
    inflight,       \* the HTTP requests in flight at once, one per slot
    concSeen        \* the outcomes of the hook calls made so far

concVars == <<inflight, concSeen>>

httpVars == <<httpPc, httpReq, httpGated, httpValidation, httpReply,
              httpDispatched, denials>>
wsVars == <<wsPc, wsHandshake, wsKey, wsCount, wsDenied, wsLast, wsSent,
           wsForwarded>>
vars == <<config, httpVars, wsVars, concVars>>

----------------------------------------------------------------------------
(* Bounds of the model *)

MaxInFlight == 2

\* the longest batch a request carries
MaxBatch == 2

\* how many characters a request target may differ from a listed one
MaxEdits == 1

\* the inbound messages followed on one WebSocket connection
MaxMsgs == 2

----------------------------------------------------------------------------
(* Optional values *)

None == <<>>
Some(x) == <<x>>
IsDefined(o) == o # <<>>

----------------------------------------------------------------------------
(* validateApiKey *)

UnauthorizedCode == -32001
UnauthorizedMessage == "Unauthorized: Invalid or missing API key"
UnauthorizedError == [code |-> UnauthorizedCode, message |-> UnauthorizedMessage]

\* The three ways a call of validateApiKey ends: the two shapes of
\* AuthValidationResult, and a TypeError thrown while it runs.
Valid == [threw |-> FALSE, isValid |-> TRUE, error |-> None]
\* Invalid as it would be with the error left out of the result
InvalidNoError(err) == [threw |-> FALSE, isValid |-> FALSE, error |-> None]

Invalid(err) == [threw |-> FALSE, isValid |-> FALSE, error |-> Some(err)]
Thrown == [threw |-> TRUE, isValid |-> FALSE, error |-> None]

\* JavaScript's ToBoolean of a JSON value (!body is its negation)
Truthy(v) ==
    CASE v.tag = "null" -> FALSE
      [] v.tag = "prim" -> v.truthy
      [] OTHER -> TRUE

\* JavaScript's ToBoolean of string | undefined (!providedKey is its negation)
TruthyKey(k) == IsDefined(k) /\ k[1] # ""

IsArray(v) == v.tag = "array"

\* req.method: a TypeError on null or undefined, undefined on a value without
\* that property, the property's value on an object that has it
MethodThrows(v) == v.tag = "null"
MethodOf(v) == IF v.tag = "object" THEN v.method ELSE None

\* config.protectedMethods.includes(method)
Includes(list, x) == \E i \in 1..Len(list) : Some(list[i]) = x

\* const methods = Array.isArray(body) ? body.map(req => req.method) : [body.method]
ExtractThrows(body) ==
    IF IsArray(body)
    THEN \E i \in 1..Len(body.items) : MethodThrows(body.items[i])
    ELSE MethodThrows(body)
ExtractMethods(body) ==
    IF IsArray(body)
    THEN [i \in 1..Len(body.items) |-> MethodOf(body.items[i])]
    ELSE <<MethodOf(body)>>

\* RequiresAuth as it would be with only the first method looked at
RequiresAuthFirst(cfg, methods) ==
    Len(methods) >= 1 /\ Includes(cfg.protectedMethods, methods[1])

\* RequiresAuth as it would be with methods.every in place of methods.some
RequiresAuthEvery(cfg, methods) ==
    \A i \in 1..Len(methods) : Includes(cfg.protectedMethods, methods[i])

\* RequiresAuth as it would be with only "is anything protected" asked
RequiresAuthAny(cfg, methods) ==
    Len(methods) >= 1 /\ cfg.protectedMethods # <<>>

\* methods.some(method => config.protectedMethods.includes(method))
RequiresAuth(cfg, methods) ==
    \E i \in 1..Len(methods) : Includes(cfg.protectedMethods, methods[i])

\* KeyRejected as it would be with providedKey === undefined in place of
\* !providedKey
KeyRejectedUndefinedOnly(cfg, providedKey) ==
    ~IsDefined(providedKey) \/ providedKey[1] # cfg.apiKey

\* !providedKey || providedKey !== config.apiKey
KeyRejected(cfg, providedKey) ==
    ~TruthyKey(providedKey) \/ providedKey[1] # cfg.apiKey

\* validateApiKey as it would be with one error for a missing key and
\* another for a wrong one
validateApiKeyTwoErrors(cfg, body, providedKey) ==
    IF ~Truthy(body) THEN Valid
    ELSE IF ExtractThrows(body) THEN Thrown
    ELSE IF ~RequiresAuth(cfg, ExtractMethods(body)) THEN Valid
    ELSE IF ~TruthyKey(providedKey)
    THEN Invalid([code |-> UnauthorizedCode, message |-> "Unauthorized: Missing API key"])
    ELSE IF providedKey[1] # cfg.apiKey
    THEN Invalid([code |-> UnauthorizedCode, message |-> "Unauthorized: Invalid API key"])
    ELSE Valid

validateApiKey(cfg, body, providedKey) ==
    IF ~Truthy(body) THEN Valid
    ELSE IF ExtractThrows(body) THEN Thrown
    ELSE IF ~RequiresAuth(cfg, ExtractMethods(body)) THEN Valid
    ELSE IF KeyRejected(cfg, providedKey) THEN Invalid(UnauthorizedError)
    ELSE Valid

----------------------------------------------------------------------------
(* createApiKeyAuthMiddleware: the route check *)

\* the characters \d matches
Digits == {"0", "1", "2", "3", "4", "5", "6", "7", "8", "9"}

\* new URL(request.url, base).pathname for a request target in origin form
\* whose path has no empty first segment, no dot segment and no backslash:
\* the characters before the first "?" or "#"
PathEnd(url) ==
    IF \E i \in 1..Len(url) : url[i] \in {"?", "#"}
    THEN (CHOOSE i \in 1..Len(url) :
              /\ url[i] \in {"?", "#"}
              /\ \A j \in 1..(i - 1) : url[j] \notin {"?", "#"}) - 1
    ELSE Len(url)
\* Pathname as it would be with the raw request.url matched
PathnameRaw(url) == url

Pathname(url) == SubSeq(url, 1, PathEnd(url))

RpcPaths ==
    << <<"/", "r", "p", "c">>,
       <<"/">>,
       <<"/", "v", "1", "/", "r", "p", "c">>,
       <<"/", "v", "2", "/", "r", "p", "c">> >>

\* [...].includes(pathname)
InRpcPaths(pathname) == \E i \in 1..Len(RpcPaths) : RpcPaths[i] = pathname

\* the number of characters of p from position i on that \d+ consumes
RECURSIVE DigitRun(_, _)
DigitRun(p, i) ==
    IF i <= Len(p) /\ p[i] \in Digits THEN 1 + DigitRun(p, i + 1) ELSE 0

\* pathname.match(/^\/v\d+\/rpc$/)
MatchesVersioned(p) ==
    /\ Len(p) >= 2
    /\ p[1] = "/"
    /\ p[2] = "v"
    /\ LET n == DigitRun(p, 3)
       IN /\ n >= 1
          /\ SubSeq(p, 3 + n, Len(p)) = <<"/", "r", "p", "c">>

\* IsRpcPath as it would be with a prefix test in place of the exact one
IsRpcPathPrefix(pathname) ==
    \E i \in 1..Len(RpcPaths) :
        /\ Len(pathname) >= Len(RpcPaths[i])
        /\ SubSeq(pathname, 1, Len(RpcPaths[i])) = RpcPaths[i]

IsRpcPath(pathname) == InRpcPaths(pathname) \/ MatchesVersioned(pathname)

\* The outcome of one run of the hook createApiKeyAuthMiddleware returns:
\*   gated       whether it went past the route check
\*   validation  what validateApiKey returned, when it was called and returned
\*   reply       what it sent with reply.code(..).send(..)
\*   ends        "returned", or "threw" when the TypeError of validateApiKey
\*               rejects the hook's promise
UnauthorizedStatus == 401
ErrorEnvelope(err) == [jsonrpc |-> "2.0", id |-> None, error |-> err]

\* the request target /rpc?apiKey=test-api-key-123
ApiKeyUrl ==
    <<"/", "r", "p", "c", "?", "a", "p", "i", "K", "e", "y", "=",
      "t", "e", "s", "t", "-", "a", "p", "i", "-", "k", "e", "y", "-", "1", "2", "3">>

\* Middleware as it would be with the apiKey query parameter read when the
\* x-api-key header is absent
MiddlewareQueryFallback(cfg, req) ==
    IF ~IsRpcPath(Pathname(req.url))
    THEN [gated |-> FALSE, validation |-> None, reply |-> None, ends |-> "returned"]
    ELSE LET providedKey ==
                 IF IsDefined(req.apiKeyHeader) THEN req.apiKeyHeader
                 ELSE IF req.url = ApiKeyUrl THEN Some("test-api-key-123")
                 ELSE None
             validation == validateApiKey(cfg, req.body, providedKey)
         IN IF validation.threw
            THEN [gated |-> TRUE, validation |-> None, reply |-> None,
                  ends |-> "threw"]
            ELSE IF ~validation.isValid /\ IsDefined(validation.error)
            THEN [gated |-> TRUE, validation |-> Some(validation),
                  reply |-> Some([status |-> UnauthorizedStatus,
                                  body |-> ErrorEnvelope(validation.error[1])]),
                  ends |-> "returned"]
            ELSE [gated |-> TRUE, validation |-> Some(validation),
                  reply |-> None, ends |-> "returned"]

\* Middleware as it would be with the request's id echoed in the envelope
MiddlewareEchoId(cfg, req) ==
    IF ~IsRpcPath(Pathname(req.url))
    THEN [gated |-> FALSE, validation |-> None, reply |-> None, ends |-> "returned"]
    ELSE LET validation == validateApiKey(cfg, req.body, req.apiKeyHeader)
         IN IF validation.threw
            THEN [gated |-> TRUE, validation |-> None, reply |-> None,
                  ends |-> "threw"]
            ELSE IF ~validation.isValid /\ IsDefined(validation.error)
            THEN [gated |-> TRUE, validation |-> Some(validation),
                  reply |-> Some([status |-> UnauthorizedStatus,
                                  body |-> [jsonrpc |-> "2.0",
                                            id |-> IF req.body.tag = "object"
                                                   THEN req.body.id ELSE None,
                                            error |-> validation.error[1]]]),
                  ends |-> "returned"]
            ELSE [gated |-> TRUE, validation |-> Some(validation),
                  reply |-> None, ends |-> "returned"]

Middleware(cfg, req) ==
    IF ~IsRpcPath(Pathname(req.url))
    THEN [gated |-> FALSE, validation |-> None, reply |-> None, ends |-> "returned"]
    ELSE LET validation == validateApiKey(cfg, req.body, req.apiKeyHeader)
         IN IF validation.threw
            THEN [gated |-> TRUE, validation |-> None, reply |-> None,
                  ends |-> "threw"]
            ELSE IF ~validation.isValid /\ IsDefined(validation.error)
            THEN [gated |-> TRUE, validation |-> Some(validation),
                  reply |-> Some([status |-> UnauthorizedStatus,
                                  body |-> ErrorEnvelope(validation.error[1])]),
                  ends |-> "returned"]
            ELSE [gated |-> TRUE, validation |-> Some(validation),
                  reply |-> None, ends |-> "returned"]

----------------------------------------------------------------------------
(* The inputs: configurations, request bodies, keys and request targets *)

Methods == {"eth_sendUserOperation", "eth_estimateUserOperationGas", "eth_chainId"}
Ids == {1, 2}

Null == [tag |-> "null"]
Prim(t) == [tag |-> "prim", truthy |-> t]
NoMethodObject == [tag |-> "object", method |-> None, id |-> None]
Call(m, id) == [tag |-> "object", method |-> Some(m), id |-> Some(id)]
Batch(items) == [tag |-> "array", items |-> items]

ApiKey == "test-api-key-123"
Configs ==
    [apiKey : {"", ApiKey},
     protectedMethods : {<<>>,
                         <<"eth_sendUserOperation">>,
                         <<"eth_sendUserOperation", "eth_estimateUserOperationGas">>}]

\* no key, and as keys: the empty string, the configured key, that key in
\* upper case and without its last character, and another key
Keys ==
    {None, Some(""), Some(ApiKey), Some("TEST-API-KEY-123"),
     Some("test-api-key-12"), Some("wrong-api-key")}

\* what a batch may hold: calls, and values that are no call
Elements == {Call(m, 1) : m \in Methods} \cup {Null, Prim(TRUE), NoMethodObject}
SeqsUpTo(S, n) == UNION {[1..k -> S] : k \in 0..n}
Bodies ==
    {Null, Prim(FALSE), Prim(TRUE), NoMethodObject}
        \cup {Call(m, id) : m \in Methods, id \in Ids}
        \cup {Batch(items) : items \in SeqsUpTo(Elements, MaxBatch)}

Urls ==
    { <<"/", "r", "p", "c">>,
      <<"/", "v", "1", "/", "r", "p", "c", "?", "x", "=", "y">>,
      <<"/", "v", "1", "0", "/", "r", "p", "c">>,
      <<"/", "h", "e", "a", "l", "t", "h">>,
      <<"/", "m", "e", "t", "r", "i", "c", "s">>,
      ApiKeyUrl }

HttpRequests == [url : Urls, body : Bodies, apiKeyHeader : Keys]

----------------------------------------------------------------------------
(* The HTTP server: one request at a time through hook and handler *)

IdleSlot == [pc |-> "idle", req |-> None, out |-> None]

KeyClass(cfg, key) ==
    IF ~IsDefined(key) THEN "missing"
    ELSE IF key[1] # cfg.apiKey THEN "wrong"
    ELSE "same"

Init ==
    /\ config \in Configs
    /\ httpPc = "idle"
    /\ httpReq = None
    /\ httpGated = FALSE
    /\ httpValidation = None
    /\ httpReply = None
    /\ httpDispatched = <<>>
    /\ denials = {}
    /\ wsPc = "closed"
    /\ wsHandshake = None
    /\ wsKey = None
    /\ wsCount = 0
    /\ wsDenied = 0
    /\ wsLast = None
    /\ wsSent = <<>>
    /\ wsForwarded = <<>>
    /\ inflight = [i \in 1..MaxInFlight |-> IdleSlot]
    /\ concSeen = {}

\* a request arrives and is routed; its body is parsed
HttpReceive ==
    /\ httpPc = "idle"
    /\ \E req \in HttpRequests : httpReq' = Some(req)
    /\ httpPc' = "hook"
    /\ UNCHANGED <<config, httpGated, httpValidation, httpReply,
                   httpDispatched, denials, wsVars, concVars>>

\* the hook runs to its end
HttpMiddleware ==
    /\ httpPc = "hook"
    /\ LET req == httpReq[1]
           out == Middleware(config, req)
       IN /\ httpGated' = out.gated
          /\ httpValidation' = out.validation
          /\ httpReply' = out.reply
          /\ httpPc' = IF out.ends = "threw" THEN "threw"
                       ELSE IF IsDefined(out.reply) THEN "replied"
                       ELSE "handler"
          /\ denials' =
                IF IsDefined(out.reply)
                THEN denials \cup
                       {[key |-> KeyClass(config, req.apiKeyHeader),
                         validation |-> out.validation[1],
                         reply |-> out.reply[1]]}
                ELSE denials
    /\ UNCHANGED <<config, httpReq, httpDispatched, wsVars, concVars>>

\* no reply was sent and the hook returned: the route handler dispatches
HttpHandler ==
    /\ httpPc = "handler"
    /\ httpDispatched' = Append(httpDispatched, httpReq[1].body)
    /\ httpPc' = "done"
    /\ UNCHANGED <<config, httpReq, httpGated, httpValidation, httpReply, denials,
                   wsVars, concVars>>

\* the request is over
HttpFinish ==
    /\ httpPc \in {"replied", "done", "threw"}
    /\ httpPc' = "idle"
    /\ httpReq' = None
    /\ httpGated' = FALSE
    /\ httpValidation' = None
    /\ httpReply' = None
    /\ httpDispatched' = <<>>
    /\ UNCHANGED <<config, denials, wsVars, concVars>>

Next == HttpReceive \/ HttpMiddleware \/ HttpHandler \/ HttpFinish

Spec == Init /\ [][Next]_vars

----------------------------------------------------------------------------
(* The route check over request targets near the listed paths *)

UrlChars == {"/", "v", "c", "1", "?", "#", "x"}

BaseUrls ==
    { <<"/">>,
      <<"/", "r", "p", "c">>,
      <<"/", "v", "1", "/", "r", "p", "c">>,
      <<"/", "v", "2", "/", "r", "p", "c">>,
      <<"/", "v", "1", "0", "/", "r", "p", "c">>,
      <<"/", "v", "1", "/", "r", "p", "c", "?", "x", "=", "y">> }

ExemptUrls ==
    { <<"/", "r", "p", "c", "/", "e", "x", "t", "r", "a">>,
      <<"/", "h", "e", "a", "l", "t", "h">>,
      <<"/", "m", "e", "t", "r", "i", "c", "s">> }

\* the sequences one character away from u
Edits(u) ==
    {[u EXCEPT ![i] = c] : i \in 1..Len(u), c \in UrlChars}
        \cup {SubSeq(u, 1, i - 1) \o SubSeq(u, i + 1, Len(u)) : i \in 1..Len(u)}
        \cup {SubSeq(u, 1, i) \o <<c>> \o SubSeq(u, i + 1, Len(u)) :
                  i \in 0..Len(u), c \in UrlChars}
RECURSIVE EditsWithin(_, _)
EditsWithin(S, n) ==
    IF n = 0 THEN S ELSE EditsWithin(S \cup UNION {Edits(u) : u \in S}, n - 1)

\* a request target in origin form whose path does not start with "//"
OriginForm(u) == Len(u) >= 1 /\ u[1] = "/" /\ (Len(u) >= 2 => u[2] # "/")

RouteUrls == {u \in EditsWithin(BaseUrls, MaxEdits) : OriginForm(u)} \cup ExemptUrls

RouteRequests ==
    [url : RouteUrls,
     body : {Call("eth_sendUserOperation", 1)},
     apiKeyHeader : {None, Some(ApiKey)}]

InitRoute ==
    /\ Init
    /\ config = [apiKey |-> ApiKey, protectedMethods |-> <<"eth_sendUserOperation">>]

RouteReceive ==
    /\ httpPc = "idle"
    /\ \E req \in RouteRequests : httpReq' = Some(req)
    /\ httpPc' = "hook"
    /\ UNCHANGED <<config, httpGated, httpValidation, httpReply,
                   httpDispatched, denials, wsVars, concVars>>

NextRoute == RouteReceive \/ HttpMiddleware \/ HttpHandler \/ HttpFinish

SpecRoute == InitRoute /\ [][NextRoute]_vars

----------------------------------------------------------------------------
(* The HTTP server with several requests in flight.  The hook has no await,
   so each call of it runs to its end before another callback starts; the
   calls of different requests interleave in any order with the receipt,
   the handling and the completion of the others. *)

ConcConfigs == {c \in Configs : c.protectedMethods = <<"eth_sendUserOperation">>}

ConcRequests ==
    [url : { <<"/", "r", "p", "c">>, <<"/", "h", "e", "a", "l", "t", "h">> },
     body : { Call("eth_sendUserOperation", 1),
              Call("eth_chainId", 1),
              Batch(<<Call("eth_chainId", 1), Call("eth_sendUserOperation", 2)>>) },
     apiKeyHeader : {None, Some(ApiKey), Some("wrong-api-key")}]

\* the hook called for the request in slot i, with the slots of the others
\* standing by: it reads config and its own request only
HookOutcomeSharedKey(cfg, slots, i) ==
    LET j == (i % MaxInFlight) + 1
        key == IF slots[j].req # <<>> THEN slots[j].req[1].apiKeyHeader
               ELSE slots[i].req[1].apiKeyHeader
    IN Middleware(cfg, [slots[i].req[1] EXCEPT !.apiKeyHeader = key])

HookOutcome(cfg, slots, i) == Middleware(cfg, slots[i].req[1])

OutcomeOf(out) ==
    IF out.ends = "threw" THEN "threw"
    ELSE IF out.reply # <<>> THEN "denied"
    ELSE "passed"

InitConc ==
    /\ Init
    /\ config \in ConcConfigs

ConcReceive ==
    \E i \in 1..MaxInFlight, req \in ConcRequests :
        /\ inflight[i].pc = "idle"
        /\ inflight' = [inflight EXCEPT ![i] =
                           [pc |-> "hook", req |-> Some(req), out |-> None]]
        /\ UNCHANGED <<config, httpVars, wsVars, concSeen>>

ConcHook ==
    \E i \in 1..MaxInFlight :
        /\ inflight[i].pc = "hook"
        /\ LET out == HookOutcome(config, inflight, i)
           IN /\ inflight' = [inflight EXCEPT
                     ![i].out = Some(out),
                     ![i].pc = IF out.ends = "threw" THEN "threw"
                               ELSE IF out.reply # <<>> THEN "replied"
                               ELSE "handler"]
              /\ concSeen' = concSeen \cup {OutcomeOf(out)}
        /\ UNCHANGED <<config, httpVars, wsVars>>

\* the route handler of a request the hook let through
ConcHandler ==
    \E i \in 1..MaxInFlight :
        /\ inflight[i].pc = "handler"
        /\ inflight' = [inflight EXCEPT ![i].pc = "done"]
        /\ UNCHANGED <<config, httpVars, wsVars, concSeen>>

\* the response is on the wire and the slot is free again
ConcFinish ==
    \E i \in 1..MaxInFlight :
        /\ inflight[i].pc \in {"replied", "done", "threw"}
        /\ inflight' = [inflight EXCEPT ![i] = IdleSlot]
        /\ UNCHANGED <<config, httpVars, wsVars, concSeen>>

NextConc == ConcReceive \/ ConcHook \/ ConcHandler \/ ConcFinish

SpecConc == InitConc /\ [][NextConc]_vars

----------------------------------------------------------------------------
(* The WebSocket adapter: one connection, its messages one after another *)

Handshakes == [header : Keys, query : Keys]

\* the credential of a connection: the x-api-key header of the handshake if
\* present, otherwise the apiKey query parameter of the connection URL
CapturedKey(handshake) ==
    IF IsDefined(handshake.header) THEN handshake.header ELSE handshake.query

\* what the adapter does with one inbound message, given the captured key
WsOutcome(cfg, body, key) ==
    LET validation == validateApiKey(cfg, body, key)
    IN IF validation.threw THEN "threw"
       ELSE IF ~validation.isValid THEN "denied"
       ELSE "forwarded"

WsConnect ==
    /\ wsPc = "closed"
    /\ \E handshake \in Handshakes :
          /\ wsHandshake' = Some(handshake)
          /\ wsKey' = CapturedKey(handshake)
    /\ wsPc' = "open"
    /\ wsCount' = 0
    /\ wsDenied' = 0
    /\ wsLast' = None
    /\ wsSent' = <<>>
    /\ wsForwarded' = <<>>
    /\ UNCHANGED <<config, concVars, httpVars>>

\* an inbound message is parsed and evaluated with the captured credential.
\* A validator that throws leaves the connection open or closes it.
WsMessage ==
    /\ wsPc = "open"
    /\ wsCount < MaxMsgs
    /\ \E body \in Bodies :
          LET outcome == WsOutcome(config, body, wsKey)
          IN /\ wsLast' = Some([body |-> body, outcome |-> outcome])
             /\ wsSent' = IF outcome = "denied"
                           THEN <<ErrorEnvelope(UnauthorizedError)>>
                           ELSE <<>>
             /\ wsForwarded' = IF outcome = "forwarded" THEN <<body>> ELSE <<>>
             /\ wsDenied' = IF outcome = "denied" THEN wsDenied + 1 ELSE wsDenied
             /\ wsPc' \in IF outcome = "threw" THEN {"open", "closed"} ELSE {"open"}
    /\ wsCount' = wsCount + 1
    /\ UNCHANGED <<config, concVars, httpVars, wsHandshake, wsKey>>

\* the client closes the connection
WsClose ==
    /\ wsPc = "open"
    /\ wsPc' = "closed"
    /\ wsHandshake' = None
    /\ wsKey' = None
    /\ wsCount' = 0
    /\ wsDenied' = 0
    /\ wsLast' = None
    /\ wsSent' = <<>>
    /\ wsForwarded' = <<>>
    /\ UNCHANGED <<config, concVars, httpVars>>

NextWs == WsConnect \/ WsMessage \/ WsClose

SpecWs == Init /\ [][NextWs]_vars

----------------------------------------------------------------------------
(* Vocabulary of the properties *)

\* the hook has run on the request in flight
Handled == httpPc \in {"replied", "handler", "done", "threw"}

\* the method names a body names: those of its call objects
IsCall(v) == v.tag = "object" /\ v.method # <<>>
NamedMethods(body) ==
    IF body.tag = "array"
    THEN {body.items[i].method[1] :
              i \in {j \in 1..Len(body.items) : IsCall(body.items[j])}}
    ELSE IF IsCall(body) THEN {body.method[1]} ELSE {}
ProtectedSet(cfg) == {cfg.protectedMethods[i] : i \in 1..Len(cfg.protectedMethods)}
NamesProtected(cfg, body) == NamedMethods(body) \cap ProtectedSet(cfg) # {}

\* a single call, or a batch of calls only
IsCallBatch(body) ==
    /\ body.tag = "array"
    /\ \A i \in 1..Len(body.items) : IsCall(body.items[i])
WellFormed(body) == IsCall(body) \/ IsCallBatch(body)

\* the reply of a denial, written out
Reply401 ==
    [status |-> 401,
     body |-> [jsonrpc |-> "2.0",
               id |-> <<>>,
               error |-> [code |-> -32001,
                          message |-> "Unauthorized: Invalid or missing API key"]]]

----------------------------------------------------------------------------
(* C1 *)

\* C1: under a configuration whose apiKey is empty, every request is allowed:
\* validateApiKey never returns isValid = false and the hook never replies 401,
\* whatever the body and the provided key.
C1_EmptyApiKeyAllowsAll ==
    config.apiKey = "" =>
        /\ httpReply = <<>>
        /\ (httpValidation # <<>> => httpValidation[1].isValid)

----------------------------------------------------------------------------
(* C2 *)

\* the reference formula of the Validator
ReferenceAllowed(cfg, body, key) ==
    \/ ~NamesProtected(cfg, body)
    \/ (key # <<>> /\ key[1] = cfg.apiKey)

\* the same, with a provided key that is also not the empty string
ReferenceAllowedNonEmpty(cfg, body, key) ==
    \/ ~NamesProtected(cfg, body)
    \/ (key # <<>> /\ key[1] # "" /\ key[1] = cfg.apiKey)

----------------------------------------------------------------------------
(* C3 *)

\* a batch of calls with a protected one, sent with no key or a key that is
\* not the configured one, to a gated path
DeniableBatch ==
    /\ Handled
    /\ httpGated
    /\ IsCallBatch(httpReq[1].body)
    /\ NamesProtected(config, httpReq[1].body)
    /\ \/ httpReq[1].apiKeyHeader = <<>>
       \/ httpReq[1].apiKeyHeader[1] # config.apiKey

\* C3: such a batch is denied as a whole: the hook sends exactly one reply,
\* the 401 envelope, and the dispatcher gets none of it.
C3_BatchDeniedAsAWhole ==
    DeniableBatch =>
        /\ httpPc = "replied"
        /\ Len(httpReply) = 1
        /\ httpReply[1] = Reply401
        /\ httpDispatched = <<>>

C3_Witness ==
    /\ DeniableBatch
    /\ Len(httpReq[1].body.items) = 2
    /\ httpReq[1].body.items[1].method = <<"eth_chainId">>
    /\ httpReq[1].body.items[2].method = <<"eth_sendUserOperation">>
    /\ httpPc = "replied"

----------------------------------------------------------------------------
(* C4 *)

\* C4: on a gated path, a call or batch of calls is held to need
\* authentication iff it names a protected method: naming none it is allowed
\* whatever the key, naming one it is denied when no key is provided.
C4_AuthRequiredIffProtectedNamed ==
    Handled /\ httpGated /\ WellFormed(httpReq[1].body) =>
        /\ ~NamesProtected(config, httpReq[1].body) =>
              /\ httpValidation = <<[threw |-> FALSE, isValid |-> TRUE, error |-> <<>>]>>
              /\ httpReply = <<>>
              /\ httpPc \in {"handler", "done"}
        /\ NamesProtected(config, httpReq[1].body) /\ httpReq[1].apiKeyHeader = <<>> =>
              /\ httpValidation # <<>>
              /\ ~httpValidation[1].isValid

C4_Witness ==
    /\ httpPc = "done"
    /\ httpGated
    /\ config.apiKey = "test-api-key-123"
    /\ config.protectedMethods # <<>>
    /\ IsCallBatch(httpReq[1].body)
    /\ Len(httpReq[1].body.items) = 2
    /\ ~NamesProtected(config, httpReq[1].body)
    /\ httpReq[1].apiKeyHeader = <<>>
    /\ httpDispatched = <<httpReq[1].body>>

----------------------------------------------------------------------------
(* C5 *)

\* C5: on a gated path the hook renders the decision exactly: on deny it
\* replies 401 with the envelope whose id is null and the dispatcher is not
\* invoked; on allow it sends nothing and the dispatcher gets the body.
C5_AdapterRendersDecision ==
    Handled /\ httpGated /\ httpValidation # <<>> =>
        /\ ~httpValidation[1].isValid =>
              /\ httpReply = <<Reply401>>
              /\ httpPc = "replied"
              /\ httpDispatched = <<>>
        /\ httpValidation[1].isValid =>
              /\ httpReply = <<>>
              /\ httpPc \in {"handler", "done"}
              /\ httpPc = "done" => httpDispatched = <<httpReq[1].body>>

C5_Witness ==
    /\ httpPc = "replied"
    /\ httpGated
    /\ httpReq[1].body.tag = "object"
    /\ httpReq[1].body.id = <<2>>
    /\ httpReply[1].body.id = <<>>

----------------------------------------------------------------------------
(* C7 *)

HealthUrl == <<"/", "h", "e", "a", "l", "t", "h">>
MetricsUrl == <<"/", "m", "e", "t", "r", "i", "c", "s">>

\* C7: a request whose path is exempt, /health and /metrics among them, passes
\* the hook untouched: validateApiKey is not called, nothing is thrown, no
\* reply is sent and the handler runs.
C7_ExemptPathsPassThrough ==
    Handled =>
        /\ httpReq[1].url \in {HealthUrl, MetricsUrl} => ~httpGated
        /\ ~httpGated =>
              /\ httpValidation = <<>>
              /\ httpReply = <<>>
              /\ httpPc \in {"handler", "done"}
              /\ httpPc = "done" => httpDispatched = <<httpReq[1].body>>

C7_Witness ==
    /\ httpPc = "done"
    /\ httpReq[1].url = HealthUrl
    /\ config.apiKey = "test-api-key-123"
    /\ NamesProtected(config, httpReq[1].body)
    /\ httpReq[1].apiKeyHeader = <<>>
    /\ httpDispatched = <<httpReq[1].body>>

----------------------------------------------------------------------------
(* C8 *)

\* a body that is absent or not of the expected shape
Malformed(body) == ~WellFormed(body) \/ (body.tag = "array" /\ body.items = <<>>)

\* C8: on a gated path a malformed or absent body never makes the gate fail:
\* nothing is thrown, and the request is allowed whatever the key.
C8_MalformedBodyAllowed ==
    Handled /\ httpGated /\ Malformed(httpReq[1].body) =>
        /\ httpPc # "threw"
        /\ httpReply = <<>>
        /\ httpValidation # <<>>
        /\ httpValidation[1].isValid

----------------------------------------------------------------------------
(* C9 *)

\* C9: every denial carries the fixed -32001 error, and a denial of a request
\* with no key and a denial of a request with a wrong key have the same
\* decision and the same reply.
C9_DenialsIndistinguishable ==
    /\ \A d \in denials :
          /\ d.validation.isValid = FALSE
          /\ d.validation.error =
                <<[code |-> -32001,
                   message |-> "Unauthorized: Invalid or missing API key"]>>
    /\ \A a, b \in denials :
          a.key = "missing" /\ b.key = "wrong" =>
              a.validation = b.validation /\ a.reply = b.reply

C9_Witness ==
    /\ \E a, b \in denials : a.key = "missing" /\ b.key = "wrong"
    /\ httpPc = "replied"
    /\ httpReq[1].apiKeyHeader = <<"test-api-key-12">>

----------------------------------------------------------------------------
(* C6 *)

\* one of the paths the gate covers, as the list and the pattern describe them
ListedRpcPath(p) ==
    \/ p = <<"/">>
    \/ p = <<"/", "r", "p", "c">>
    \/ p = <<"/", "v", "1", "/", "r", "p", "c">>
    \/ p = <<"/", "v", "2", "/", "r", "p", "c">>
VersionedRpcPath(p) ==
    \E n \in 1..Len(p) :
        /\ Len(p) = n + 6
        /\ SubSeq(p, 1, 2) = <<"/", "v">>
        /\ \A i \in 3..(n + 2) :
              p[i] \in {"0", "1", "2", "3", "4", "5", "6", "7", "8", "9"}
        /\ SubSeq(p, n + 3, n + 6) = <<"/", "r", "p", "c">>

\* the target is such a path, alone or followed by a query or a fragment
TargetOfRpcPath(url) ==
    \E k \in 1..Len(url) :
        /\ k = Len(url) \/ url[k + 1] \in {"?", "#"}
        /\ ListedRpcPath(SubSeq(url, 1, k)) \/ VersionedRpcPath(SubSeq(url, 1, k))

\* C6: a request is gated iff its path, with the query string stripped, is
\* /, /rpc, /v1/rpc, /v2/rpc or /v<digits>/rpc; /v10/rpc and /v1/rpc?x=y are
\* gated, /health, /metrics, /v/rpc, /rpc/ and /rpc/extra are not.
C6_GatedIffRpcPath ==
    Handled =>
        /\ httpGated = TargetOfRpcPath(httpReq[1].url)
        /\ httpReq[1].url \in
              { <<"/", "v", "1", "0", "/", "r", "p", "c">>,
                <<"/", "v", "1", "/", "r", "p", "c", "?", "x", "=", "y">> }
              => httpGated
        /\ httpReq[1].url \in
              { <<"/", "h", "e", "a", "l", "t", "h">>,
                <<"/", "m", "e", "t", "r", "i", "c", "s">>,
                <<"/", "v", "/", "r", "p", "c">>,
                <<"/", "r", "p", "c", "/">>,
                <<"/", "r", "p", "c", "/", "e", "x", "t", "r", "a">> }
              => ~httpGated

C6_Witness ==
    /\ Handled
    /\ httpReq[1].url = <<"/", "v", "1", "0", "/", "r", "p", "c", "?">>
    /\ httpGated
    /\ httpPc = "replied"

----------------------------------------------------------------------------
(* C10 *)

\* C10: an open connection's credential is the one its handshake gave (the
\* header if present, otherwise the query parameter), whatever messages came
\* since; and on a connection opened with only the query parameter K, K being
\* the configured key, every message naming a protected method is forwarded.
C10_HandshakeKeyHonoured ==
    wsPc = "open" =>
        /\ wsKey = (IF wsHandshake[1].header # <<>>
                    THEN wsHandshake[1].header
                    ELSE wsHandshake[1].query)
        /\ ( /\ wsHandshake[1].header = <<>>
             /\ wsHandshake[1].query = <<config.apiKey>>
             /\ wsLast # <<>>
             /\ WellFormed(wsLast[1].body)
             /\ NamesProtected(config, wsLast[1].body) )
           => /\ wsLast[1].outcome = "forwarded"
              /\ wsForwarded = <<wsLast[1].body>>
              /\ wsSent = <<>>

\* C10 with a key that is not the empty string: on a connection opened with
\* only the query parameter K, K non-empty and the configured key, every
\* message naming a protected method is forwarded.
C10_NonEmptyKeyHonoured ==
    ( /\ wsPc = "open"
      /\ wsHandshake[1].header = <<>>
      /\ wsHandshake[1].query = <<config.apiKey>>
      /\ config.apiKey # ""
      /\ wsLast # <<>>
      /\ WellFormed(wsLast[1].body)
      /\ NamesProtected(config, wsLast[1].body) )
    => /\ wsLast[1].outcome = "forwarded"
       /\ wsForwarded = <<wsLast[1].body>>
       /\ wsSent = <<>>

----------------------------------------------------------------------------
(* C11 *)

----------------------------------------------------------------------------
(* C13 *)

\* C13: over HTTP the credential is the x-api-key header only: a request to a
\* gated path naming a protected method with no such header is denied with
\* 401, also when its URL carries the configured key as ?apiKey=<key>.
C13_HttpKeyFromHeaderOnly ==
    ( /\ Handled
      /\ httpGated
      /\ WellFormed(httpReq[1].body)
      /\ NamesProtected(config, httpReq[1].body)
      /\ httpReq[1].apiKeyHeader = <<>> )
    => /\ httpPc = "replied"
       /\ httpReply = <<Reply401>>
       /\ httpDispatched = <<>>

C13_Witness ==
    /\ httpPc = "replied"
    /\ httpGated
    /\ config.apiKey = "test-api-key-123"
    /\ httpReq[1].url =
          <<"/", "r", "p", "c", "?", "a", "p", "i", "K", "e", "y", "=",
            "t", "e", "s", "t", "-", "a", "p", "i", "-", "k", "e", "y", "-", "1", "2", "3">>
    /\ httpReq[1].apiKeyHeader = <<>>
    /\ httpReply = <<Reply401>>

----------------------------------------------------------------------------
(* C14 *)

\* C14: a result of validateApiKey has an error iff isValid is false, and
\* that error is the -32001 object; so the hook's guard
\* !validation.isValid && validation.error holds exactly when isValid is
\* false, and no denied request falls through to the dispatcher.
C14_ErrorIffInvalid ==
    httpValidation # <<>> =>
        /\ (httpValidation[1].error # <<>>) = ~httpValidation[1].isValid
        /\ httpValidation[1].error # <<>> =>
              httpValidation[1].error =
                 <<[code |-> -32001,
                    message |-> "Unauthorized: Invalid or missing API key"]>>
        /\ (~httpValidation[1].isValid /\ httpValidation[1].error # <<>>)
              = ~httpValidation[1].isValid
        /\ ~httpValidation[1].isValid =>
              /\ httpPc = "replied"
              /\ httpReply # <<>>
              /\ httpDispatched = <<>>

C14_Witness ==
    /\ httpValidation # <<>>
    /\ ~httpValidation[1].isValid
    /\ httpValidation[1].error # <<>>
    /\ httpPc = "replied"
    /\ httpReq[1].apiKeyHeader = <<"wrong-api-key">>

----------------------------------------------------------------------------
(* C12 *)

Decided(slot) == slot.out # <<>>

SameInputs(cfg, a, b) ==
    /\ IsRpcPath(Pathname(a.url)) = IsRpcPath(Pathname(b.url))
    /\ ExtractMethods(a.body) = ExtractMethods(b.body)
    /\ a.apiKeyHeader = b.apiKeyHeader

====
